---- MODULE Spec2Model ----
(***************************************************************************)
(* Model of app.py, the Streamlit credit-card fraud demo: load_model       *)
(* behind st.cache_resource, analyze_transaction, and the 'Check           *)
(* Transaction' button handler.                                            *)
(*                                                                         *)
(* Numbers.  Amounts and the amount statistics are whole currency units.   *)
(* A ratio amount / x is kept exactly, as the pair [num, den], and is      *)
(* compared with a literal p/q by cross-multiplication.  Scores and        *)
(* thresholds are in hundredths (0.5 is 50, the 1.0 cap is 100), so the    *)
(* score arithmetic is exact decimal arithmetic; Python's binary floats    *)
(* differ from it by at most a few units in the last place (0.7 * 0.8 is   *)
(* 0.5599999999999999 there and 56 here).                                  *)
(* An optional value (None or a value) is the sequence <<>> or <<v>>.      *)
(***************************************************************************)
EXTENDS Integers, Sequences, FiniteSets, TLC

VARIABLES
    model_file,     \* what is at 'optimized_model_v1.1.pkl': its state and content
    cached_model,   \* st.cache_resource's entry for load_model: <<>> or <<model_data>>
    run,            \* the last script run that took the button branch: <<>> or <<record>>
    earlier         \* history variable: the first button run, <<>> or <<record>>

vars == <<model_file, cached_model, run, earlier>>

-----------------------------------------------------------------------------
(* Bounds and input domains *)

MaxRows == 2

CustomerIds == {1, 2}

\* Amounts on and next to every band edge of the rows below: 1000 and 5000,
\* 3 and 5 times the averages 100 and 300, 1 and 1.5 times the maxima 200
\* and 1000.
Amounts == {0, 200, 300, 301, 500, 600, 1000, 1001, 1500, 1501, 5000, 5001}

Row(id, n, avg, max, min, total) ==
    [customer_id |-> id, transaction_count |-> n, avg_amount |-> avg,
     max_amount |-> max, min_amount |-> min, total_amount |-> total]

\* Rows of the statistics tables of the session specification.  The file is
\* external data that the program reads unvalidated: a table may repeat a
\* customer_id.
TableRows ==
    { Row(1, 20, 100, 200, 10, 2000),
      Row(1, 5, 300, 1000, 100, 1500),
      Row(2, 11, 0, 200, 0, 0),
      Row(1, 0, 0, 0, 0, 0) }

\* Rows of the one-row tables of the scorer specification: every
\* combination of the counts around 1 and 10 with an average and a maximum,
\* as the program reads whatever row the file holds.
ScorerRows ==
    { Row(1, n, avg, max, avg \div 10, n * avg) :
        n \in {0, 1, 10, 11}, avg \in {0, 100, 300}, max \in {0, 200, 1000} }
    \cup { Row(1, 20, 100, 200, 10, 2000) }

SeqsUpTo(S, k) == UNION { [1..n -> S] : n \in 0..k }

\* A DataFrame: its rows in order, and whether it has a 'customer_id' column
\* (without one, indexing it by that name raises KeyError).
Table(hasId, rows) == [has_customer_id |-> hasId, rows |-> rows]

\* model_data: 'threshold' absent or a score, 'customer_stats_overall' None
\* or a table.
ModelData(th, tbl) == [threshold |-> th, customer_stats_overall |-> tbl]

SessionModels ==
    { ModelData(th, tbl) :
        th \in {<<>>, <<50>>},
        tbl \in {<<>>} \cup
                { <<Table(h, rows)>> :
                    h \in BOOLEAN, rows \in SeqsUpTo(TableRows, MaxRows) } }

ScorerModels ==
    { ModelData(th, <<Table(TRUE, <<r>>)>>) :
        th \in {<<>>, <<56>>, <<60>>, <<100>>},
        r \in ScorerRows }

\* The file: "present" with the object joblib.load returns, "missing", or
\* "corrupt" (joblib.load raises on it).
File(state, content) == [state |-> state, content |-> content]

-----------------------------------------------------------------------------
(* load_model *)

DefaultModel == ModelData(<<50>>, <<>>)

\* The body of load_model: os.path.exists, joblib.load, and the handler of
\* any exception.
\* Fault variant: the load without its except branch.
LoadModelUnhandled(file) ==
    IF file.state = "present"
    THEN [raised |-> FALSE, path |-> "loaded", model_data |-> file.content[1]]
    ELSE IF file.state = "missing"
    THEN [raised |-> FALSE, path |-> "missing", model_data |-> DefaultModel]
    ELSE [raised |-> TRUE, path |-> "error", model_data |-> DefaultModel]

LoadModel(file) ==
    IF file.state = "present"
    THEN [raised |-> FALSE, path |-> "loaded", model_data |-> file.content[1]]
    ELSE IF file.state = "missing"
    THEN [raised |-> FALSE, path |-> "missing", model_data |-> DefaultModel]
    ELSE [raised |-> FALSE, path |-> "error", model_data |-> DefaultModel]

\* load_model as called: st.cache_resource runs the body on the first call
\* and hands back the stored object afterwards.
CachedLoadModel(file, cache) ==
    IF cache # <<>>
    THEN [raised |-> FALSE, path |-> "cached", model_data |-> cache[1]]
    ELSE LoadModel(file)

-----------------------------------------------------------------------------
(* analyze_transaction: threshold and customer statistics *)

GetThreshold(model_data) ==
    IF model_data.threshold = <<>> THEN 50 ELSE model_data.threshold[1]

ZeroStats ==
    [transaction_count |-> 0, avg_amount |-> 0, max_amount |-> 0,
     min_amount |-> 0, total_amount |-> 0]

\* customer_history: None when there is no table or the selection raised,
\* else the selected rows.  error: the except branch ran (st.error).
CustomerHistory(model_data, customer_id) ==
    LET tbl == model_data.customer_stats_overall IN
    IF tbl = <<>>
    THEN [error |-> FALSE, history |-> <<>>]
    ELSE IF ~tbl[1].has_customer_id
    THEN [error |-> TRUE, history |-> <<>>]
    ELSE LET match(r) == r.customer_id = customer_id
         IN [error |-> FALSE, history |-> <<SelectSeq(tbl[1].rows, match)>>]

\* Fault variant: iloc[-1] for iloc[0].
CustomerStatsLastRow(customer_history) ==
    IF customer_history = <<>> \/ Len(customer_history[1]) = 0
    THEN ZeroStats
    ELSE LET stats == customer_history[1][Len(customer_history[1])]
         IN [transaction_count |-> stats.transaction_count,
             avg_amount |-> stats.avg_amount,
             max_amount |-> stats.max_amount,
             min_amount |-> stats.min_amount,
             total_amount |-> stats.total_amount]

CustomerStats(customer_history) ==
    IF customer_history = <<>> \/ Len(customer_history[1]) = 0
    THEN ZeroStats
    ELSE LET stats == customer_history[1][1]
         IN [transaction_count |-> stats.transaction_count,
             avg_amount |-> stats.avg_amount,
             max_amount |-> stats.max_amount,
             min_amount |-> stats.min_amount,
             total_amount |-> stats.total_amount]

-----------------------------------------------------------------------------
(* analyze_transaction: ratios and indicators *)

Ratio(num, den) == [num |-> num, den |-> den]

\* r > p/q, for positive denominators.
RatioGT(r, p, q) == r.num * q > p * r.den

\* f"{ratio:.1f}": the ratio in tenths, rounded to nearest, ties to even.
\* (The rounding is of the exact quotient; a float that is not exactly on a
\* tie rounds by its binary value.  No quotient of the domains below is on
\* a tie the float misses.)
Format1(r) ==
    LET n == 10 * r.num
        q == n \div r.den
        rem == n % r.den
    IN IF 2 * rem > r.den THEN q + 1
       ELSE IF 2 * rem < r.den THEN q
       ELSE IF q % 2 = 0 THEN q ELSE q + 1

Indicator(text, ratio) == [text |-> text, ratio |-> ratio]

AmountToAvgRatio(customer_stats, amount) ==
    IF customer_stats.avg_amount > 0
    THEN Ratio(amount, customer_stats.avg_amount)
    ELSE Ratio(0, 1)

AmountToMaxRatio(customer_stats, amount) ==
    IF customer_stats.max_amount > 0
    THEN Ratio(amount, customer_stats.max_amount)
    ELSE Ratio(0, 1)

\* Fault variant: the indicator from a ratio of 3.0 on (>= for >).
AvgIndicatorsFromThree(customer_stats, amount) ==
    LET r == AmountToAvgRatio(customer_stats, amount) IN
    IF customer_stats.avg_amount > 0
    THEN IF r.num >= 3 * r.den
         THEN <<Indicator("higher than customer's average", <<Format1(r)>>)>>
         ELSE <<>>
    ELSE IF amount > 1000
         THEN <<Indicator("High amount for a new customer", <<>>)>>
         ELSE <<>>

AvgIndicators(customer_stats, amount) ==
    LET r == AmountToAvgRatio(customer_stats, amount) IN
    IF customer_stats.avg_amount > 0
    THEN IF RatioGT(r, 5, 1)
         THEN <<Indicator("higher than customer's average", <<Format1(r)>>)>>
         ELSE IF RatioGT(r, 3, 1)
         THEN <<Indicator("higher than customer's average", <<Format1(r)>>)>>
         ELSE <<>>
    ELSE IF amount > 1000
         THEN <<Indicator("High amount for a new customer", <<>>)>>
         ELSE <<>>

MaxIndicators(customer_stats, amount) ==
    LET r == AmountToMaxRatio(customer_stats, amount) IN
    IF customer_stats.max_amount > 0
    THEN IF RatioGT(r, 3, 2)
         THEN <<Indicator("higher than customer's maximum", <<Format1(r)>>)>>
         ELSE IF RatioGT(r, 1, 1)
         THEN <<Indicator("Amount exceeds customer's maximum", <<>>)>>
         ELSE <<>>
    ELSE <<>>

\* Fault variant: the two blocks in the other order.
FraudIndicatorsMaxFirst(customer_stats, amount) ==
    MaxIndicators(customer_stats, amount) \o AvgIndicators(customer_stats, amount)

FraudIndicators(customer_stats, amount) ==
    AvgIndicators(customer_stats, amount) \o MaxIndicators(customer_stats, amount)

-----------------------------------------------------------------------------
(* analyze_transaction: the score, in hundredths *)

\* Fault variant: the comparison turned round.
NewCustomerRiskInverted(customer_stats) ==
    IF customer_stats.transaction_count > 1 THEN 50 ELSE 0

NewCustomerRisk(customer_stats) ==
    IF customer_stats.transaction_count < 1 THEN 50 ELSE 0

AvgRatioRisk(amount_to_avg_ratio) ==
    IF RatioGT(amount_to_avg_ratio, 5, 1) THEN 30
    ELSE IF RatioGT(amount_to_avg_ratio, 3, 1) THEN 20
    ELSE 0

MaxRatioRisk(amount_to_max_ratio) ==
    IF RatioGT(amount_to_max_ratio, 3, 2) THEN 40
    ELSE IF RatioGT(amount_to_max_ratio, 1, 1) THEN 20
    ELSE 0

\* Fault variant: the two increments exchanged.
AmountRiskSwapped(amount) ==
    IF amount > 5000 THEN 10
    ELSE IF amount > 1000 THEN 30
    ELSE 0

AmountRisk(amount) ==
    IF amount > 5000 THEN 30
    ELSE IF amount > 1000 THEN 10
    ELSE 0

Min(a, b) == IF a < b THEN a ELSE b

\* Fault variant: no cap.
CapScoreMissing(fraud_score) == fraud_score

CapScore(fraud_score) == Min(fraud_score, 100)

\* fraud_score *= 0.8 for more than 10 transactions (8/10 of a multiple of
\* 10 hundredths is a whole number of hundredths).
\* Fault variant: the reduction from 10 transactions on (>= for >).
LoyaltyAdjustFromTen(customer_stats, fraud_score) ==
    IF customer_stats.transaction_count >= 10
    THEN (fraud_score * 8) \div 10
    ELSE fraud_score

LoyaltyAdjust(customer_stats, fraud_score) ==
    IF customer_stats.transaction_count > 10
    THEN (fraud_score * 8) \div 10
    ELSE fraud_score

FraudScore(customer_stats, amount) ==
    LET s0 == 0
        s1 == s0 + NewCustomerRisk(customer_stats)
        s2 == s1 + AvgRatioRisk(AmountToAvgRatio(customer_stats, amount))
        s3 == s2 + MaxRatioRisk(AmountToMaxRatio(customer_stats, amount))
        s4 == s3 + AmountRisk(amount)
    IN LoyaltyAdjust(customer_stats, CapScore(s4))

\* Fault variant: >= for >.
PredictFraudInclusive(fraud_score, threshold) == fraud_score >= threshold

PredictFraud(fraud_score, threshold) == fraud_score > threshold

\* The dictionary analyze_transaction returns, with lookup_error recording
\* that the except branch of the history lookup ran.
AnalyzeTransaction(customer_id, amount, model_data) ==
    LET threshold == GetThreshold(model_data)
        lookup == CustomerHistory(model_data, customer_id)
        customer_stats == CustomerStats(lookup.history)
        fraud_score == FraudScore(customer_stats, amount)
    IN [predicted_fraud |-> PredictFraud(fraud_score, threshold),
        fraud_score |-> fraud_score,
        threshold |-> threshold,
        customer_stats |-> customer_stats,
        fraud_indicators |-> FraudIndicators(customer_stats, amount),
        amount_to_avg_ratio |->
            IF customer_stats.avg_amount > 0
            THEN <<AmountToAvgRatio(customer_stats, amount)>> ELSE <<>>,
        amount_to_max_ratio |->
            IF customer_stats.max_amount > 0
            THEN <<AmountToMaxRatio(customer_stats, amount)>> ELSE <<>>,
        lookup_error |-> lookup.error]

\* What a call of analyze_transaction leaves in the object it was handed:
\* the function only reads model_data.
\* Fault variant: the call counts the transaction into the customer's rows.
ModelDataAfterCounting(customer_id, amount, model_data) ==
    LET tbl == model_data.customer_stats_overall
        count(r) ==
            IF r.customer_id = customer_id
            THEN [r EXCEPT !.transaction_count = @ + 1]
            ELSE r
    IN IF tbl = <<>>
       THEN model_data
       ELSE ModelData(model_data.threshold,
                      <<Table(tbl[1].has_customer_id,
                              [i \in 1..Len(tbl[1].rows) |-> count(tbl[1].rows[i])])>>)

ModelDataAfter(customer_id, amount, model_data) == model_data

-----------------------------------------------------------------------------
(* The script *)

\* 'if st.button("Check Transaction")': load_model, simulate_processing (a
\* progress bar, no state), analyze_transaction, then the display of the
\* result.  The record keeps the inputs and what each call returned.
ButtonRun(customer_id, amount) ==
    LET load == CachedLoadModel(model_file, cached_model) IN
    [customer_id |-> customer_id,
     amount |-> amount,
     load_path |-> load.path,
     raised |-> load.raised,
     model_data |-> IF load.raised THEN <<>> ELSE <<load.model_data>>,
     analysis_result |->
        IF load.raised THEN <<>>
        ELSE <<AnalyzeTransaction(customer_id, amount, load.model_data)>>]

CheckTransaction(customer_id, amount) ==
    LET load == CachedLoadModel(model_file, cached_model)
        this == ButtonRun(customer_id, amount)
    IN /\ run' = <<this>>
       /\ cached_model' =
            IF load.raised THEN cached_model
            ELSE <<ModelDataAfter(customer_id, amount, load.model_data)>>
       /\ earlier' = IF earlier = <<>> THEN <<this>> ELSE earlier
       /\ UNCHANGED model_file

\* A rerun of the script without the button (an input widget changed): the
\* button branch is skipped and nothing of the last result is drawn.
Rerun ==
    /\ run # <<>>
    /\ run' = <<>>
    /\ UNCHANGED <<model_file, cached_model, earlier>>

Files(models) ==
    {File("missing", <<>>), File("corrupt", <<>>)} \cup
    { File("present", <<m>>) : m \in models }

InitWith(models) ==
    /\ model_file \in Files(models)
    /\ cached_model = <<>>
    /\ run = <<>>
    /\ earlier = <<>>

Init == InitWith(SessionModels)

ScorerInit == InitWith(ScorerModels)

Next ==
    \/ \E customer_id \in CustomerIds, amount \in Amounts :
            CheckTransaction(customer_id, amount)
    \/ Rerun

Spec == Init /\ [][Next]_vars

ScorerSpec == ScorerInit /\ [][Next]_vars

-----------------------------------------------------------------------------
(* Properties.  The last button run, where there is one: *)

Ran == run # <<>> /\ ~run[1].raised

LastRun == run[1]

Result == run[1].analysis_result[1]

Stats == Result.customer_stats

Indicators == Result.fraud_indicators

IsAvgIndicator(ind) == ind.text = "higher than customer's average"

IsNewCustomerIndicator(ind) == ind.text = "High amount for a new customer"

IsMaxIndicator(ind) ==
    ind.text \in {"higher than customer's maximum",
                  "Amount exceeds customer's maximum"}

Positions(P(_)) == { i \in 1..Len(Indicators) : P(Indicators[i]) }

\* The four contributions as the score formula states them, in hundredths,
\* from the statistics and the amount of the last run.
TermNew == IF Stats.transaction_count < 1 THEN 50 ELSE 0

TermAvg ==
    IF Stats.avg_amount > 0 /\ LastRun.amount > 5 * Stats.avg_amount THEN 30
    ELSE IF Stats.avg_amount > 0 /\ LastRun.amount > 3 * Stats.avg_amount THEN 20
    ELSE 0

TermMax ==
    IF Stats.max_amount > 0 /\ 2 * LastRun.amount > 3 * Stats.max_amount THEN 40
    ELSE IF Stats.max_amount > 0 /\ LastRun.amount > Stats.max_amount THEN 20
    ELSE 0

TermAmount ==
    IF LastRun.amount > 5000 THEN 30
    ELSE IF LastRun.amount > 1000 THEN 10
    ELSE 0

TermSum == TermNew + TermAvg + TermMax + TermAmount

\* C1: the fraud_score of every assessment is d * min(1.0, n + a + m + b):
\* the four contributions added, capped at 1.0, then multiplied by 0.8 when
\* transaction_count > 10, with no second cap.
C1_ScoreFormula ==
    Ran =>
        IF Stats.transaction_count > 10
        THEN 10 * Result.fraud_score = 8 * Min(TermSum, 100)
        ELSE Result.fraud_score = Min(TermSum, 100)

\* Scenario B: count 20, avg 100, max 200, amount 600 scores 0.56.
C1_Witness ==
    /\ Ran
    /\ Stats.transaction_count = 20 /\ Stats.avg_amount = 100
    /\ Stats.max_amount = 200 /\ LastRun.amount = 600
    /\ TermAvg = 30 /\ TermMax = 40
    /\ Result.fraud_score = 56

\* C2: the fraud_score of every assessment lies in [0, 1].
C2_ScoreInUnitInterval ==
    Ran => Result.fraud_score >= 0 /\ Result.fraud_score <= 100

\* The contributions add up to more than 1.0 and the score is the cap.
C2_Witness == Ran /\ TermSum > 100 /\ Result.fraud_score = 100

\* The threshold in force: the model's, or 0.5 when the model has none.
ThresholdInForce ==
    LET given == LastRun.model_data[1].threshold
    IN IF given = <<>> THEN 50 ELSE given[1]

\* C3: predicted_fraud is true exactly when fraud_score is strictly greater
\* than the threshold in force; a score equal to the threshold is not fraud.
C3_StrictThreshold ==
    Ran =>
        /\ Result.threshold = ThresholdInForce
        /\ Result.predicted_fraud <=> (Result.fraud_score > ThresholdInForce)

\* A score equal to a threshold the model supplies.
C3_Witness ==
    /\ Ran
    /\ LastRun.model_data[1].threshold # <<>>
    /\ Result.fraud_score = ThresholdInForce
    /\ ~Result.predicted_fraud

SameCustomerAndModel ==
    /\ Ran
    /\ earlier # <<>>
    /\ earlier[1].customer_id = LastRun.customer_id
    /\ earlier[1].model_data = LastRun.model_data

\* C4: with the statistics and the threshold fixed, of two assessments the
\* one for the larger amount has the larger or equal fraud_score.
C4_Monotone ==
    SameCustomerAndModel =>
        LET first == earlier[1].analysis_result[1] IN
        /\ earlier[1].amount <= LastRun.amount
                => first.fraud_score <= Result.fraud_score
        /\ earlier[1].amount >= LastRun.amount
                => first.fraud_score >= Result.fraud_score

\* Two assessments of one customer with a known history, the amount and the
\* score both larger in the second.
C4_Witness ==
    /\ SameCustomerAndModel
    /\ Stats.transaction_count > 0
    /\ earlier[1].amount < LastRun.amount
    /\ earlier[1].analysis_result[1].fraud_score < Result.fraud_score

\* The rows of the table of the last run whose customer_id is the requested
\* one, by position.
TableOfRun == LastRun.model_data[1].customer_stats_overall

MatchingPositions ==
    { i \in 1..Len(TableOfRun[1].rows) :
        TableOfRun[1].rows[i].customer_id = LastRun.customer_id }

FirstMatch ==
    TableOfRun[1].rows[CHOOSE i \in MatchingPositions :
                            \A j \in MatchingPositions : i <= j]

FiveFields(r) ==
    <<r.transaction_count, r.avg_amount, r.max_amount, r.min_amount,
      r.total_amount>>

\* C5: the statistics of an assessment are the zero-record when the table
\* is None, has no row for the customer, or the lookup fails, and the five
\* fields of the first matching row otherwise; no error reaches the caller.
C5_Lookup ==
    run # <<>> =>
        /\ ~LastRun.raised
        /\ LastRun.analysis_result # <<>>
        /\ DOMAIN Stats = {"transaction_count", "avg_amount", "max_amount",
                           "min_amount", "total_amount"}
        /\ IF TableOfRun = <<>> THEN FiveFields(Stats) = <<0, 0, 0, 0, 0>>
           ELSE IF ~TableOfRun[1].has_customer_id
           THEN FiveFields(Stats) = <<0, 0, 0, 0, 0>> /\ Result.lookup_error
           ELSE IF MatchingPositions = {}
           THEN FiveFields(Stats) = <<0, 0, 0, 0, 0>>
           ELSE FiveFields(Stats) = FiveFields(FirstMatch)

\* Two rows for the customer that differ: the statistics are the first's.
C5_Witness ==
    /\ Ran
    /\ TableOfRun # <<>>
    /\ TableOfRun[1].has_customer_id
    /\ \E i, j \in MatchingPositions :
            /\ i < j
            /\ TableOfRun[1].rows[i] # TableOfRun[1].rows[j]
            /\ FiveFields(Stats) = FiveFields(TableOfRun[1].rows[i])

\* C6 as stated: with transaction_count = 0 the score holds the +0.5 term
\* and the list has no average-ratio indicator.
C6_Original ==
    (Ran /\ Stats.transaction_count = 0) =>
        /\ Result.fraud_score >= 50
        /\ Positions(IsAvgIndicator) = {}

\* C6: with transaction_count = 0 the score holds the +0.5 term (it is at
\* least 0.5), and the list has an average-ratio indicator only for a record
\* with avg_amount > 0 and amount / avg_amount > 3.0; none when avg_amount
\* is 0, as in the zero-record.
C6_NewCustomer ==
    (Ran /\ Stats.transaction_count = 0) =>
        /\ Result.fraud_score >= 50
        /\ Result.fraud_score = Min(50 + TermAvg + TermMax + TermAmount, 100)
        /\ Positions(IsAvgIndicator) # {}
             <=> (Stats.avg_amount > 0 /\ LastRun.amount > 3 * Stats.avg_amount)

\* The zero-record with a high amount: 0.5 + 0.1 and no average indicator.
C6_Witness ==
    /\ Ran
    /\ FiveFields(Stats) = <<0, 0, 0, 0, 0>>
    /\ LastRun.amount > 1000
    /\ Result.fraud_score = 60
    /\ Positions(IsAvgIndicator) = {}
    /\ Result.amount_to_avg_ratio = <<>>

\* C7: for amount > 0, at most one average-ratio and at most one
\* maximum-ratio indicator, any average-ratio or new-customer indicator
\* before any maximum-ratio one; with avg_amount > 0 the average-ratio one
\* is there iff amount / avg_amount > 3.0, with max_amount > 0 the
\* maximum-ratio one iff amount / max_amount > 1.0.
C7_Indicators ==
    (Ran /\ LastRun.amount > 0) =>
        /\ Cardinality(Positions(IsAvgIndicator)) <= 1
        /\ Cardinality(Positions(IsMaxIndicator)) <= 1
        /\ \A i \in Positions(IsMaxIndicator) :
             \A j \in Positions(IsAvgIndicator)
                        \cup Positions(IsNewCustomerIndicator) : j < i
        /\ Stats.avg_amount > 0 =>
             (Positions(IsAvgIndicator) # {}
                <=> LastRun.amount > 3 * Stats.avg_amount)
        /\ Stats.max_amount > 0 =>
             (Positions(IsMaxIndicator) # {}
                <=> LastRun.amount > Stats.max_amount)

\* Both ratio indicators, the average one first.
C7_Witness ==
    /\ Ran
    /\ LastRun.amount > 0
    /\ Positions(IsAvgIndicator) = {1}
    /\ Positions(IsMaxIndicator) = {2}

\* C8: whatever loading the model gives, load_model returns a configuration
\* and the button run produces an assessment; with the file missing or the
\* load raising, the configuration is threshold 0.5 and no table, and the
\* assessment has threshold 0.5 and the zero-record.
C8_LoadDegrades ==
    run # <<>> =>
        /\ ~LastRun.raised
        /\ LastRun.model_data # <<>>
        /\ LastRun.analysis_result # <<>>
        /\ model_file.state \in {"missing", "corrupt"} =>
             /\ LastRun.model_data[1].threshold = <<50>>
             /\ LastRun.model_data[1].customer_stats_overall = <<>>
             /\ Result.threshold = 50
             /\ FiveFields(Stats) = <<0, 0, 0, 0, 0>>

\* The load raised, and the run went on to an assessment.
C8_Witness ==
    /\ Ran
    /\ model_file.state = "corrupt"
    /\ LastRun.load_path = "error"
    /\ LastRun.analysis_result # <<>>

C10_IndicatorsMatchScore ==
    Ran =>
        /\ Positions(IsAvgIndicator) # {}
             <=> AvgRatioRisk(AmountToAvgRatio(Stats, LastRun.amount)) > 0
        /\ Positions(IsMaxIndicator) # {}
             <=> MaxRatioRisk(AmountToMaxRatio(Stats, LastRun.amount)) > 0
        /\ Positions(IsNewCustomerIndicator) # {}
             => AmountRisk(LastRun.amount) > 0
        /\ Indicators # <<>> => Result.fraud_score > 0

\* The new-customer indicator and a maximum-ratio indicator together.
C10_Witness ==
    /\ Ran
    /\ Positions(IsNewCustomerIndicator) = {1}
    /\ Positions(IsMaxIndicator) = {2}
    /\ Result.fraud_score > 0

====
